---- MODULE Spec2Model ----
(***************************************************************************)
(* Model of agent.h (TCG 2021 NoGo framework): the random rollout player   *)
(* and the MCTS player built on it.  One take_action request is modelled   *)
(* as the steps of MCTS_player::Simulation: initialise (root + expansion), *)
(* then per iteration selection, oneSim, backPropagation, and finally the  *)
(* scan of the root's children that picks the returned move.               *)
(*                                                                         *)
(* board.h and action.h are not part of the sources at hand; the board is  *)
(* modelled as a NoGo board of one row of cells (a placement is legal on   *)
(* the mover's turn, on an empty cell, when it neither captures nor is a   *)
(* suicide).                                                               *)
(***************************************************************************)
EXTENDS Integers, Sequences, FiniteSets, TLC

(***************************************************************************)
(* Bounds of the model.                                                    *)
(***************************************************************************)
NumCells == 6
MaxSimCounts == 6
MaxSeed == 3

\* the longest configured name and the longest seed text, in characters
MaxNameLen == 2
MaxSeedLen == 2

\* the take_action requests one player object serves
MaxRequests == 2

(***************************************************************************)
(* State.  The agent: who, seed (its configured seed), sim_counts, space   *)
(* and engine.  One request: state (the board passed to take_action), the  *)
(* heap of nodes, the locals root, i, current and win of Simulation, the   *)
(* position pc in it and the returned action result.  run counts the runs  *)
(* made on the same input and prev holds what the first of them returned.  *)
(* A player object: args (its configuration), ctor (the outcome of its     *)
(* construction), myAgent (the kind of its delegate), handler (the         *)
(* strategy that ran for its last take_action) and requests.               *)
(***************************************************************************)
VARIABLES who, seed, sim_counts, space, engine,
          state, nodes, root, i, current, win, pc, result,
          run, prev,
          args, ctor, myAgent, handler, requests

vars == << who, seed, sim_counts, space, engine,
           state, nodes, root, i, current, win, pc, result, run, prev,
           args, ctor, myAgent, handler, requests >>

\* the state of a player object: its arguments, how its construction ended,
\* its delegate, the strategy that served its last request and the number of
\* requests served
pvars == << args, ctor, myAgent, handler, requests >>

(***************************************************************************)
(* board.h : piece types and the board value.                              *)
(***************************************************************************)
empty == 0
black == 1
white == 2

\* the cells of the board, a single row of NumCells cells
Cells == 1..NumCells

Adjacent(c, d) == c - d = 1 \/ d - c = 1

Neighbours(c) == {d \in Cells : Adjacent(c, d)}

EmptyBoard == [stone |-> [c \in Cells |-> empty], who_take_turns |-> black]

\* the connected group of equal stones that contains the cells of S
RECURSIVE GroupOf(_, _)
GroupOf(stone, S) ==
    LET T == S \cup {d \in Cells : \E c \in S : Adjacent(c, d) /\ stone[d] = stone[c]}
    IN  IF T = S THEN S ELSE GroupOf(stone, T)

\* board::check_liberty : does the group of cell c touch an empty cell
HasLiberty(stone, c) ==
    \E g \in GroupOf(stone, {c}) : \E d \in Neighbours(g) : stone[d] = empty

\* board::place : the outcome of placing a stone of colour w at cell pos
PlaceLegal(b, pos, w) ==
    /\ pos \in Cells
    /\ w \in {black, white}
    /\ w = b.who_take_turns
    /\ b.stone[pos] = empty
    /\ LET test == [b.stone EXCEPT ![pos] = w]
       IN  /\ HasLiberty(test, pos)
           /\ \A d \in Neighbours(pos) :
                 test[d] = 3 - w => HasLiberty(test, d)

PlaceResult(b, pos, w) ==
    [stone |-> [b.stone EXCEPT ![pos] = w], who_take_turns |-> 3 - w]

(***************************************************************************)
(* action.h : an action is a placement (position, colour) or the default   *)
(* action(), which applies to no board.                                    *)
(***************************************************************************)
NoAction == [pos |-> 0, who |-> empty]

place(pos, w) == [pos |-> pos, who |-> w]

\* action::apply(board) == board::legal
Legal(move, b) == move # NoAction /\ PlaceLegal(b, move.pos, move.who)

\* the board after move.apply(b): changed only by a legal move
After(move, b) == IF Legal(move, b) THEN PlaceResult(b, move.pos, move.who) ELSE b

\* boards of the game: every position reached from the empty board by legal play
RECURSIVE ReachFrom(_)
ReachFrom(S) ==
    LET T == S \cup UNION {{PlaceResult(b, c, b.who_take_turns) :
                               c \in {d \in Cells : PlaceLegal(b, d, b.who_take_turns)}} :
                           b \in S}
    IN  IF T = S THEN S ELSE ReachFrom(T)

Boards == ReachFrom({EmptyBoard})

(***************************************************************************)
(* std::default_random_engine and std::shuffle.  The engine is a Lehmer    *)
(* generator (as minstd_rand0, with a small modulus); a default            *)
(* constructed engine starts from the default seed.                        *)
(***************************************************************************)
EngineMod == 127
EngineMul == 3
DefaultSeed == 1
NoSeed == 0 - 1

\* engine.seed(s)
Seeded(s) == IF s % EngineMod = 0 THEN 1 ELSE s % EngineMod

\* one draw of the engine
NextRand(e) == (EngineMul * e) % EngineMod

Swap(s, a, b) == [s EXCEPT ![a] = s[b], ![b] = s[a]]

\* std::shuffle(space.begin(), space.end(), engine) from position k on
RECURSIVE ShuffleFrom(_, _, _)
ShuffleFrom(s, e, k) ==
    IF k > Len(s) THEN [space |-> s, engine |-> e]
    ELSE LET e2 == NextRand(e)
         IN  ShuffleFrom(Swap(s, k, 1 + (e2 % k)), e2, k + 1)

Shuffle(s, e) == ShuffleFrom(s, e, 2)

(***************************************************************************)
(* random_player : the list of all placements of its colour, shuffled in   *)
(* place by every take_action, and its own engine.                         *)
(***************************************************************************)
\* random_player::random_player(args), seed = NoSeed when args hold no seed
NewPlayer(w, s) ==
    [who    |-> w,
     space  |-> [k \in 1..NumCells |-> place(k, w)],
     engine |-> IF s = NoSeed THEN DefaultSeed ELSE Seeded(s)]

\* the first move of the shuffled space, from position k on, that is legal
RECURSIVE FirstLegal(_, _, _)
FirstLegal(sp, st, k) ==
    IF k > Len(sp) THEN NoAction
    ELSE IF Legal(sp[k], st) THEN sp[k]
    ELSE FirstLegal(sp, st, k + 1)

\* random_player::take_action(state): the move and the player afterwards
RandomTakeAction(p, st) ==
    LET sh == Shuffle(p.space, p.engine)
    IN  [move   |-> FirstLegal(sh.space, st, 1),
         player |-> [p EXCEPT !.space = sh.space, !.engine = sh.engine]]

(***************************************************************************)
(* Configuration.  args holds the options of the argument string, each     *)
(* given at most once: an option is << >> when absent and << v >> when     *)
(* given with value v.  A name and a seed are texts, sequences of          *)
(* characters; a token of the argument string never holds a space, so a    *)
(* text never does.  The text "search=" occurs only as the key of the      *)
(* search option.                                                          *)
(***************************************************************************)
NameChars == {"a", "[", "]", "(", ")", ":", ";"}

SeedChars == {"1", "2", "x"}

\* the characters of find_first_of("[]():; ")
ForbiddenChars == {"[", "]", "(", ")", ":", ";", " "}

Texts(chars, n) == UNION {[1..k -> chars] : k \in 0..n}

Option(values) == {<< >>} \cup {<< v >> : v \in values}

Configs == [name   : Option(Texts(NameChars, MaxNameLen)),
            role   : Option({"black", "white", "red"}),
            search : Option({"MCTS", "random"}),
            seed   : Option(Texts(SeedChars, MaxSeedLen))]

\* the value of name in "name=unknown role=unknown "
Unknown == << "u", "n", "k", "n", "o", "w", "n" >>

\* agent::agent: meta after "name=unknown role=unknown " + args is parsed,
\* a later value of a key replacing an earlier one
Meta(a) ==
    [name |-> IF a.name = << >> THEN Unknown ELSE a.name[1],
     role |-> IF a.role = << >> THEN "unknown" ELSE a.role[1]]

Digits == << "0", "1", "2", "3", "4", "5", "6", "7", "8", "9" >>

IsDigit(c) == \E d \in 1..10 : Digits[d] = c

DigitOf(c) == (CHOOSE d \in 1..10 : Digits[d] = c) - 1

\* the number written by the digits of text t from position k on
RECURSIVE NumberFrom(_, _, _)
NumberFrom(t, k, acc) ==
    IF k > Len(t) \/ ~IsDigit(t[k]) THEN acc
    ELSE NumberFrom(t, k + 1, 10 * acc + DigitOf(t[k]))

\* std::stod(value): the number at the start of the text; no conversion can
\* be performed, and std::invalid_argument is thrown, when there is none
Stod(t) ==
    IF Len(t) = 0 \/ ~IsDigit(t[1]) THEN [ok |-> FALSE, value |-> 0]
    ELSE [ok |-> TRUE, value |-> NumberFrom(t, 1, 0)]

\* int(meta["seed"]) when the seed option is given
SeedOf(a) == IF a.seed = << >> THEN NoSeed ELSE Stod(a.seed[1]).value

\* the colour named by the role
RoleColour(r) ==
    IF r = "black" THEN black ELSE IF r = "white" THEN white ELSE empty

\* a constructor without the test of the name
ConstructionOutcomeNoNameCheck(a) ==
    IF a.seed # << >> /\ ~Stod(a.seed[1]).ok THEN "stod"
    ELSE IF RoleColour(Meta(a).role) = empty THEN "invalid role"
    ELSE "ok"

\* random_player::random_player: how construction ends, "ok" or the
\* exception thrown
ConstructionOutcome(a) ==
    IF a.seed # << >> /\ ~Stod(a.seed[1]).ok THEN "stod"
    ELSE IF \E k \in 1..Len(Meta(a).name) : Meta(a).name[k] \in ForbiddenChars
         THEN "invalid name"
    ELSE IF RoleColour(Meta(a).role) = empty THEN "invalid role"
    ELSE "ok"

\* a delegate chosen without looking at the search option
DelegateOfIgnoresSearch(a) == "random_player"

\* player::player: the delegate the constructor assigns to myAgent; with a
\* search option other than MCTS neither branch assigns it
DelegateOf(a) ==
    IF a.search # << >>
    THEN IF a.search[1] = "MCTS" THEN "MCTS_player" ELSE "unset"
    ELSE "random_player"

(***************************************************************************)
(* MCTS_player::Node.  Nodes live on the heap: nodes[n] is the node at     *)
(* address n, and address 0 is nullptr.                                    *)
(***************************************************************************)
nullptr == 0

\* Node::Node()
NewNode == [visit |-> 0, win |-> 0, b |-> EmptyBoard, move |-> NoAction,
            parent |-> nullptr, child |-> <<>>]

\* expansion without the legality test: a child for every move of space
RECURSIVE ExpandFromNoCheck(_, _, _, _)
ExpandFromNoCheck(heap, node, sp, k) ==
    IF k > Len(sp) THEN heap
    ELSE LET newchild == [NewNode EXCEPT !.parent = node,
                                         !.move = sp[k],
                                         !.b = After(sp[k], heap[node].b)]
             grown == Append(heap, newchild)
         IN  ExpandFromNoCheck([grown EXCEPT ![node].child = Append(@, Len(grown))],
                               node, sp, k + 1)

\* expansion that stores the node's own board in the child
RECURSIVE ExpandFromStaleBoard(_, _, _, _)
ExpandFromStaleBoard(heap, node, sp, k) ==
    IF k > Len(sp) THEN heap
    ELSE IF Legal(sp[k], heap[node].b)
         THEN LET newchild == [NewNode EXCEPT !.parent = node,
                                              !.move = sp[k],
                                              !.b = heap[node].b]
                  grown == Append(heap, newchild)
              IN  ExpandFromStaleBoard([grown EXCEPT ![node].child = Append(@, Len(grown))],
                                       node, sp, k + 1)
         ELSE ExpandFromStaleBoard(heap, node, sp, k + 1)

\* MCTS_player::expansion(node), the loop over space from position k on
RECURSIVE ExpandFrom(_, _, _, _)
ExpandFrom(heap, node, sp, k) ==
    IF k > Len(sp) THEN heap
    ELSE IF Legal(sp[k], heap[node].b)
         THEN LET newchild == [NewNode EXCEPT !.parent = node,
                                              !.move = sp[k],
                                              !.b = After(sp[k], heap[node].b)]
                  grown == Append(heap, newchild)
              IN  ExpandFrom([grown EXCEPT ![node].child = Append(@, Len(grown))],
                             node, sp, k + 1)
         ELSE ExpandFrom(heap, node, sp, k + 1)

\* MCTS_player::expansion(node): the heap and the agent's space and engine after
expansion(heap, node, sp, e) ==
    LET sh == Shuffle(sp, e)
    IN  [nodes |-> ExpandFrom(heap, node, sh.space, 1),
         space |-> sh.space, engine |-> sh.engine]

(***************************************************************************)
(* Arithmetic of the selection score.  Values are fixed point numbers with *)
(* Scale units per 1; LnTable[n] is ln(n) in these units (n up to 16, more *)
(* than any visit count the bounds allow).  For these visit counts the     *)
(* order of two scores is the order of the float values the code compares. *)
(***************************************************************************)
Scale == 10000

LnTable == << 0, 6931, 10986, 13863, 16094, 17918, 19459, 20794,
              21972, 23026, 23979, 24849, 25649, 26391, 27081, 27726 >>

\* log(n)
Ln(n) == LnTable[n]

\* sqrt(n): the largest r with r * r <= n, searched in lo..hi
RECURSIVE SqrtIn(_, _, _)
SqrtIn(n, lo, hi) ==
    IF lo >= hi THEN lo
    ELSE LET mid == (lo + hi + 1) \div 2
         IN  IF mid * mid <= n THEN SqrtIn(n, mid, hi) ELSE SqrtIn(n, lo, mid - 1)

Sqrt(n) == SqrtIn(n, 0, 40000)

\* (float)current->win / current->visit + sqrt(2 * log(root->visit) / current->visit)
UCTValue(c, p) ==
    (c.win * Scale) \div c.visit + Sqrt((2 * Ln(p.visit) * Scale) \div c.visit)

\* float bestValue = -99999.0f
LowestValue == (0 - 99999) * Scale

(***************************************************************************)
(* MCTS_player::selection                                                  *)
(***************************************************************************)
RECURSIVE selection(_, _)
RECURSIVE SelectFrom(_, _, _, _, _)

\* selection that scores an unvisited child as 0 instead of returning it
RECURSIVE SelectFromScoreFirst(_, _, _, _, _)
SelectFromScoreFirst(heap, r, k, bestNode, bestValue) ==
    IF k > Len(heap[r].child) THEN selection(heap, bestNode)
    ELSE LET cur == heap[r].child[k]
             value == IF heap[cur].visit = 0 THEN 0
                      ELSE UCTValue(heap[cur], heap[r])
         IN  IF value > bestValue
             THEN SelectFromScoreFirst(heap, r, k + 1, cur, value)
             ELSE SelectFromScoreFirst(heap, r, k + 1, bestNode, bestValue)

\* selection that lets a later child of equal score replace the best
RECURSIVE SelectFromLastBest(_, _, _, _, _)
SelectFromLastBest(heap, r, k, bestNode, bestValue) ==
    IF k > Len(heap[r].child) THEN selection(heap, bestNode)
    ELSE LET cur == heap[r].child[k]
         IN  IF heap[cur].visit = 0 THEN cur
             ELSE LET value == UCTValue(heap[cur], heap[r])
                  IN  IF value >= bestValue
                      THEN SelectFromLastBest(heap, r, k + 1, cur, value)
                      ELSE SelectFromLastBest(heap, r, k + 1, bestNode, bestValue)

\* selection that scores an unvisited child highest and goes on: the last wins
RECURSIVE SelectFromUnvisitedLast(_, _, _, _, _)
SelectFromUnvisitedLast(heap, r, k, bestNode, bestValue) ==
    IF k > Len(heap[r].child) THEN selection(heap, bestNode)
    ELSE LET cur == heap[r].child[k]
         IN  IF heap[cur].visit = 0
             THEN SelectFromUnvisitedLast(heap, r, k + 1, cur, 0 - LowestValue)
             ELSE LET value == UCTValue(heap[cur], heap[r])
                  IN  IF value > bestValue
                      THEN SelectFromUnvisitedLast(heap, r, k + 1, cur, value)
                      ELSE SelectFromUnvisitedLast(heap, r, k + 1, bestNode, bestValue)

\* the loop over root->child from position k on, then the recursive call
SelectFrom(heap, r, k, bestNode, bestValue) ==
    IF k > Len(heap[r].child) THEN selection(heap, bestNode)
    ELSE LET cur == heap[r].child[k]
         IN  IF heap[cur].visit = 0 THEN cur
             ELSE LET value == UCTValue(heap[cur], heap[r])
                  IN  IF value > bestValue
                      THEN SelectFrom(heap, r, k + 1, cur, value)
                      ELSE SelectFrom(heap, r, k + 1, bestNode, bestValue)

selection(heap, r) ==
    IF r = nullptr THEN nullptr
    ELSE IF heap[r].child = <<>> THEN r
    ELSE SelectFrom(heap, r, 1, nullptr, LowestValue)

(***************************************************************************)
(* MCTS_player::oneSim : a rollout between two fresh random players        *)
(***************************************************************************)
\* the while(true) loop; moves counts the moves applied so far
RECURSIVE RolloutFrom(_, _, _, _, _)
RolloutFrom(st, MYTURN, myself, opponent, moves) ==
    LET t == IF MYTURN THEN RandomTakeAction(myself, st)
                       ELSE RandomTakeAction(opponent, st)
    IN  IF ~Legal(t.move, st)
        THEN [MYTURN |-> MYTURN, moves |-> moves, state |-> st]
        ELSE RolloutFrom(After(t.move, st), ~MYTURN,
                         IF MYTURN THEN t.player ELSE myself,
                         IF MYTURN THEN opponent ELSE t.player,
                         moves + 1)

\* rollout players seeded differently in every run
RolloutSeedPerRun == run + 1

\* the seed of the players built by oneSim: their arguments name none
RolloutSeed == NoSeed

\* a rollout in which the searching player's policy moves first
RolloutMyselfFirst(node, w) ==
    RolloutFrom(node.b, TRUE, NewPlayer(w, RolloutSeed),
                NewPlayer(3 - w, RolloutSeed), 0)

Rollout(node, w) ==
    RolloutFrom(node.b, FALSE, NewPlayer(w, RolloutSeed),
                NewPlayer(3 - w, RolloutSeed), 0)

\* oneSim(node): return !MYTURN
oneSim(node, w) == ~Rollout(node, w).MYTURN

(***************************************************************************)
(* MCTS_player::backPropagation                                            *)
(***************************************************************************)
\* a walk that stops below the root
RECURSIVE backPropagationBelowRoot(_, _, _)
backPropagationBelowRoot(heap, cur, w) ==
    IF cur = nullptr \/ heap[cur].parent = nullptr THEN heap
    ELSE backPropagationBelowRoot([heap EXCEPT ![cur].visit = @ + 1,
                                               ![cur].win = @ + w],
                                  heap[cur].parent, w)

\* a walk with the two counters exchanged
RECURSIVE backPropagationSwapped(_, _, _)
backPropagationSwapped(heap, cur, w) ==
    IF cur = nullptr THEN heap
    ELSE backPropagationSwapped([heap EXCEPT ![cur].win = @ + 1,
                                             ![cur].visit = @ + w],
                                heap[cur].parent, w)

\* a walk that counts every outcome as a win
RECURSIVE backPropagationAlwaysWin(_, _, _)
backPropagationAlwaysWin(heap, cur, w) ==
    IF cur = nullptr THEN heap
    ELSE backPropagationAlwaysWin([heap EXCEPT ![cur].visit = @ + 1,
                                               ![cur].win = @ + 1],
                                  heap[cur].parent, w)

RECURSIVE backPropagation(_, _, _)
backPropagation(heap, cur, w) ==
    IF cur = nullptr THEN heap
    ELSE backPropagation([heap EXCEPT ![cur].visit = @ + 1,
                                      ![cur].win = @ + w],
                         heap[cur].parent, w)

(***************************************************************************)
(* The end of MCTS_player::Simulation: the scan of the root's children.    *)
(* A win rate is the pair of the two counts; 0/0 is not a number and       *)
(* compares greater than nothing, nor anything greater than it.            *)
(***************************************************************************)
WinRate(node) == [win |-> node.win, visit |-> node.visit]

\* winRate >= bestWinRate
RateGreaterOrEqual(r, best) ==
    /\ r.visit # 0
    /\ best.visit # 0
    /\ r.win * best.visit >= best.win * r.visit

\* winRate > bestWinRate
RateGreater(r, best) ==
    /\ r.visit # 0
    /\ best.visit # 0
    /\ r.win * best.visit > best.win * r.visit

\* the loop over root->child from position k on
RECURSIVE BestFrom(_, _, _, _, _)
BestFrom(heap, r, k, bestWinRate, bestmove) ==
    IF k > Len(heap[r].child) THEN bestmove
    ELSE LET c == heap[heap[r].child[k]]
         IN  IF c.visit = 0 THEN BestFrom(heap, r, k + 1, bestWinRate, bestmove)
             ELSE IF RateGreater(WinRate(c), bestWinRate)
                  THEN BestFrom(heap, r, k + 1, WinRate(c), c.move)
                  ELSE BestFrom(heap, r, k + 1, bestWinRate, bestmove)

\* bestmove left default constructed until the loop assigns it
BestMoveUnset(heap, r) ==
    BestFrom(heap, r, 1, [win |-> 0 - 1, visit |-> 1], NoAction)

BestMove(heap, r) ==
    LET first == heap[heap[r].child[1]]
    IN  BestFrom(heap, r, 1, WinRate(first), first.move)

(***************************************************************************)
(* MCTS_player::Simulation as one call: the heap, the shuffled space, the  *)
(* engine, the root and the move returned.                                 *)
(***************************************************************************)
\* the loop of lines 197-209 with k iterations left
RECURSIVE SimulationLoop(_, _, _, _)
SimulationLoop(heap, r, k, w) ==
    IF k = 0 THEN heap
    ELSE LET cur == selection(heap, r)
             wn == IF oneSim(heap[cur], w) THEN 1 ELSE 0
         IN  SimulationLoop(backPropagation(heap, cur, wn), r, k - 1, w)

Simulation(heap, sp, e, st, w, budget) ==
    LET withRoot == Append(heap, [NewNode EXCEPT !.b = st])
        r == Len(withRoot)
        ex == expansion(withRoot, r, sp, e)
    IN  IF ex.nodes[r].child = << >>
        THEN [nodes |-> ex.nodes, root |-> r, space |-> ex.space,
              engine |-> ex.engine, move |-> NoAction]
        ELSE LET searched == SimulationLoop(ex.nodes, r, budget, w)
             IN  [nodes |-> searched, root |-> r, space |-> ex.space,
                  engine |-> ex.engine, move |-> BestMove(searched, r)]

(***************************************************************************)
(* The state machine.                                                      *)
(***************************************************************************)
Seeds == {NoSeed} \cup (1..MaxSeed)

\* an MCTS_player constructed for a colour and a seed, handed a board
Init ==
    /\ who \in {black, white}
    /\ seed \in Seeds
    /\ sim_counts \in 0..MaxSimCounts
    /\ state \in Boards
    /\ space = NewPlayer(who, seed).space
    /\ engine = NewPlayer(who, seed).engine
    /\ nodes = << >>
    /\ root = nullptr
    /\ i = 0
    /\ current = nullptr
    /\ win = 0
    /\ pc = "start"
    /\ result = NoAction
    /\ run = 1
    /\ prev = NoAction
    /\ args = [name |-> << << "a" >> >>,
               role |-> IF who = black THEN << "black" >> ELSE << "white" >>,
               search |-> << "MCTS" >>,
               seed |-> IF seed = NoSeed THEN << >>
                        ELSE << << Digits[seed + 1] >> >>]
    /\ ctor = "ok"
    /\ myAgent = "MCTS_player"
    /\ handler = "MCTS_player"
    /\ requests = 1

\* Simulation without the early return for a root without children
InitializeNoEarlyReturn ==
    /\ pc = "start"
    /\ LET withRoot == Append(nodes, [NewNode EXCEPT !.b = state])
           r == Len(withRoot)
           ex == expansion(withRoot, r, space, engine)
       IN  /\ nodes' = ex.nodes
           /\ root' = r
           /\ space' = ex.space
           /\ engine' = ex.engine
    /\ pc' = "loop"
    /\ i' = sim_counts
    /\ UNCHANGED << who, seed, sim_counts, state, current, win, result, run, prev >>
    /\ UNCHANGED pvars

\* Simulation, lines 192-196: the root, its expansion, the early return
Initialize ==
    /\ pc = "start"
    /\ LET withRoot == Append(nodes, [NewNode EXCEPT !.b = state])
           r == Len(withRoot)
           ex == expansion(withRoot, r, space, engine)
       IN  /\ nodes' = ex.nodes
           /\ root' = r
           /\ space' = ex.space
           /\ engine' = ex.engine
           /\ IF ex.nodes[r].child = << >>
              THEN /\ result' = NoAction
                   /\ pc' = "done"
                   /\ i' = i
              ELSE /\ result' = result
                   /\ pc' = "loop"
                   /\ i' = sim_counts
    /\ UNCHANGED << who, seed, sim_counts, state, current, win, run, prev >>
    /\ UNCHANGED pvars

\* the selected leaf is expanded with the moves of the side to move
SelectExpandOnDemand ==
    /\ pc = "loop"
    /\ i > 0
    /\ LET cur == selection(nodes, root)
           mover == nodes[cur].b.who_take_turns
       IN  /\ current' = cur
           /\ nodes' = IF nodes[cur].child = << >>
                       THEN ExpandFrom(nodes, cur,
                                       [k \in 1..NumCells |-> place(k, mover)], 1)
                       ELSE nodes
    /\ pc' = "sim"
    /\ UNCHANGED << who, seed, sim_counts, space, engine, state, root,
                    i, win, result, run, prev >>
    /\ UNCHANGED pvars

\* Node *current = selection(root)
Select ==
    /\ pc = "loop"
    /\ i > 0
    /\ current' = selection(nodes, root)
    /\ pc' = "sim"
    /\ UNCHANGED << who, seed, sim_counts, space, engine, state, nodes, root,
                    i, win, result, run, prev >>
    /\ UNCHANGED pvars

\* int win = oneSim(current) ? 1 : 0
Simulate ==
    /\ pc = "sim"
    /\ win' = IF oneSim(nodes[current], who) THEN 1 ELSE 0
    /\ pc' = "backprop"
    /\ UNCHANGED << who, seed, sim_counts, space, engine, state, nodes, root,
                    i, current, result, run, prev >>
    /\ UNCHANGED pvars

\* an iteration that counts the loop variable down by two
BackPropagateSkipsIteration ==
    /\ pc = "backprop"
    /\ nodes' = backPropagation(nodes, current, win)
    /\ i' = i - 2
    /\ pc' = "loop"
    /\ UNCHANGED << who, seed, sim_counts, space, engine, state, root,
                    current, win, result, run, prev >>
    /\ UNCHANGED pvars

\* a walk that starts at the parent of the selected node
BackPropagateFromParent ==
    /\ pc = "backprop"
    /\ nodes' = backPropagation(nodes, nodes[current].parent, win)
    /\ i' = i - 1
    /\ pc' = "loop"
    /\ UNCHANGED << who, seed, sim_counts, space, engine, state, root,
                    current, win, result, run, prev >>
    /\ UNCHANGED pvars

\* backPropagation(current, win), and the --i of the loop
BackPropagate ==
    /\ pc = "backprop"
    /\ nodes' = backPropagation(nodes, current, win)
    /\ i' = i - 1
    /\ pc' = "loop"
    /\ UNCHANGED << who, seed, sim_counts, space, engine, state, root,
                    current, win, result, run, prev >>
    /\ UNCHANGED pvars

\* Simulation, lines 210-222: the best root child's move is returned
Decide ==
    /\ pc = "loop"
    /\ i = 0
    /\ result' = BestMove(nodes, root)
    /\ pc' = "done"
    /\ UNCHANGED << who, seed, sim_counts, space, engine, state, nodes, root,
                    i, current, win, run, prev >>
    /\ UNCHANGED pvars

\* a second run: a freshly constructed agent of the same role and seed is
\* handed the same board; the nodes of the first run were never deleted
Rerun ==
    /\ pc = "done"
    /\ run = 1
    /\ run' = 2
    /\ prev' = result
    /\ space' = NewPlayer(who, seed).space
    /\ engine' = NewPlayer(who, seed).engine
    /\ root' = nullptr
    /\ i' = 0
    /\ current' = nullptr
    /\ win' = 0
    /\ result' = NoAction
    /\ pc' = "start"
    /\ UNCHANGED << who, seed, sim_counts, state, nodes >>
    /\ UNCHANGED pvars

Next ==
    \/ Initialize
    \/ Select
    \/ Simulate
    \/ BackPropagate
    \/ Decide
    \/ Rerun

Spec == Init /\ [][Next]_vars

(***************************************************************************)
(* A player object from its argument string on: its construction, then the *)
(* take_action requests of one game.                                       *)
(***************************************************************************)
\* an argument string, and no object yet
PlayerInit ==
    /\ args \in Configs
    /\ ctor = "none"
    /\ myAgent = "unset"
    /\ handler = "none"
    /\ requests = 0
    /\ who = empty
    /\ seed = NoSeed
    /\ sim_counts = 0
    /\ space = << >>
    /\ engine = DefaultSeed
    /\ state = EmptyBoard
    /\ nodes = << >>
    /\ root = nullptr
    /\ i = 0
    /\ current = nullptr
    /\ win = 0
    /\ pc = "start"
    /\ result = NoAction
    /\ run = 1
    /\ prev = NoAction

\* player::player(args): the base constructor validates the arguments, then
\* the delegate is constructed from the same arguments; who, space, engine
\* and sim_counts are the members of the delegate
Construct ==
    /\ ctor = "none"
    /\ ctor' = ConstructionOutcome(args)
    /\ IF ConstructionOutcome(args) = "ok"
       THEN LET p == NewPlayer(RoleColour(Meta(args).role), SeedOf(args))
            IN  /\ who' = p.who
                /\ space' = p.space
                /\ engine' = p.engine
                /\ seed' = SeedOf(args)
                /\ myAgent' = DelegateOf(args)
                /\ sim_counts' \in IF DelegateOf(args) = "MCTS_player"
                                   THEN 0..MaxSimCounts ELSE {0}
       ELSE UNCHANGED << who, space, engine, seed, myAgent, sim_counts >>
    /\ UNCHANGED << state, nodes, root, i, current, win, pc, result, run, prev,
                    args, handler, requests >>

\* the boards of the next request: black moves first, and after a move of
\* the player the opponent has replied
RequestBoards ==
    IF requests = 0
    THEN IF who = black THEN {EmptyBoard}
         ELSE {After(place(c, black), EmptyBoard) :
                  c \in {d \in Cells : Legal(place(d, black), EmptyBoard)}}
    ELSE IF result = NoAction \/ ~Legal(result, state) THEN {}
    ELSE LET mine == After(result, state)
         IN  {After(place(c, mine.who_take_turns), mine) :
                 c \in {d \in Cells : Legal(place(d, mine.who_take_turns), mine)}}

\* the actions a call through an uninitialized pointer may return
AnyAction == {NoAction} \cup {place(c, w) : c \in Cells, w \in {black, white}}

\* player::take_action(state): return myAgent->take_action(state)
PlayerTakeAction ==
    /\ ctor = "ok"
    /\ handler # "undefined"
    /\ requests < MaxRequests
    /\ \E b \in RequestBoards :
          /\ state' = b
          /\ CASE myAgent = "MCTS_player" ->
                    LET s == Simulation(nodes, space, engine, b, who, sim_counts)
                    IN  /\ nodes' = s.nodes
                        /\ root' = s.root
                        /\ space' = s.space
                        /\ engine' = s.engine
                        /\ result' = s.move
                        /\ handler' = "MCTS_player"
               [] myAgent = "random_player" ->
                    LET t == RandomTakeAction([who |-> who, space |-> space,
                                               engine |-> engine], b)
                    IN  /\ space' = t.player.space
                        /\ engine' = t.player.engine
                        /\ result' = t.move
                        /\ handler' = "random_player"
                        /\ UNCHANGED << nodes, root >>
               [] myAgent = "unset" ->
                    /\ result' \in AnyAction
                    /\ handler' = "undefined"
                    /\ UNCHANGED << nodes, root, space, engine >>
    /\ requests' = requests + 1
    /\ UNCHANGED << who, seed, sim_counts, i, current, win, pc, run, prev,
                    args, ctor, myAgent >>

PlayerNext ==
    \/ Construct
    \/ PlayerTakeAction

PlayerSpec == PlayerInit /\ [][PlayerNext]_vars

(***************************************************************************)
(* Properties.                                                             *)
(***************************************************************************)
\* the searching player has a legal move on the board handed to take_action
HasLegalMove == \E c \in Cells : Legal(place(c, who), state)

\* the root's children, in list order, once the root exists
RootChildren == IF root = nullptr THEN << >> ELSE nodes[root].child

RootChild(k) == nodes[RootChildren[k]]

\* C1: when the searching player has a legal move and the budget is at least
\* 1, the returned action is the move of one of the root's children and is
\* legal on the board that was handed in.
C1_ReturnedMoveIsLegalChildMove ==
    (pc = "done" /\ sim_counts >= 1 /\ HasLegalMove)
        => /\ \E k \in 1..Len(RootChildren) : RootChild(k).move = result
           /\ Legal(result, state)

C1_Witness ==
    /\ pc = "done"
    /\ sim_counts >= 1
    /\ HasLegalMove
    /\ Len(RootChildren) >= 2
    /\ result # NoAction

\* C2: on a board without a legal move for the searching player the request
\* goes from its start straight to its return, returns the default action,
\* and no selection, simulation or backpropagation step has touched i,
\* current, win or any visit count.
C2_NoLegalMoveReturnsNoAction ==
    [][(pc = "start" /\ ~HasLegalMove)
          => /\ pc' = "done"
             /\ result' = NoAction
             /\ current' = current /\ win' = win /\ i' = i
             /\ nodes'[root'].child = << >>
             /\ nodes'[root'].visit = 0]_vars

C2_Witness ==
    /\ pc = "done"
    /\ ~HasLegalMove
    /\ state.who_take_turns = who
    /\ result = NoAction
    /\ sim_counts >= 1

\* C3: in every state of the loop over a root with children, root.visit is
\* the number of completed iterations, and it is the budget at the return.
C3_VisitConservation ==
    (pc \in {"loop", "sim", "backprop", "done"} /\ RootChildren # << >>)
        => /\ nodes[root].visit = sim_counts - i
           /\ (pc = "done" => nodes[root].visit = sim_counts)

C3_Witness ==
    /\ pc = "done"
    /\ RootChildren # << >>
    /\ sim_counts >= 2
    /\ nodes[root].visit = sim_counts

\* C4: every node satisfies 0 <= win <= visit in every state.
C4_WinAtMostVisit ==
    \A n \in 1..Len(nodes) : 0 <= nodes[n].win /\ nodes[n].win <= nodes[n].visit

C4_Witness ==
    \E n \in 1..Len(nodes) : nodes[n].win >= 1 /\ nodes[n].win < nodes[n].visit

\* C5: when the root has a child with visit = 0 at a selection, the node
\* selected is the earliest child with visit = 0, never a child picked by score.
C5_UnvisitedFirst ==
    [][(pc = "loop" /\ pc' = "sim"
          /\ \E k \in 1..Len(RootChildren) : RootChild(k).visit = 0)
          => \E k \in 1..Len(RootChildren) :
                /\ current' = RootChildren[k]
                /\ RootChild(k).visit = 0
                /\ \A j \in 1..(k - 1) : RootChild(j).visit > 0]_vars

C5_Witness ==
    /\ pc = "sim"
    /\ nodes[current].visit = 0
    /\ \E k \in 1..Len(RootChildren) :
          /\ RootChildren[k] = current
          /\ k >= 2
          /\ \A j \in 1..(k - 1) : RootChild(j).visit > 0

\* C6: with a budget of at least 1, the returned move is the move of the
\* visited root child with the greatest win / visit, the earliest in the
\* children list among equals; unvisited children are ignored.
C6_DecideBestWinRate ==
    (pc = "done" /\ sim_counts >= 1 /\ RootChildren # << >>)
        => \E k \in 1..Len(RootChildren) :
              /\ RootChild(k).visit > 0
              /\ result = RootChild(k).move
              /\ \A j \in 1..Len(RootChildren) :
                    RootChild(j).visit > 0
                        => /\ RootChild(j).win * RootChild(k).visit
                                 <= RootChild(k).win * RootChild(j).visit
                           /\ j < k => RootChild(j).win * RootChild(k).visit
                                          < RootChild(k).win * RootChild(j).visit

C6_Witness ==
    /\ pc = "done"
    /\ sim_counts >= 1
    /\ \E j, k \in 1..Len(RootChildren) :
          /\ j < k
          /\ RootChild(j).visit > 0
          /\ RootChild(k).visit > 0
          /\ RootChild(j).win * RootChild(k).visit
                = RootChild(k).win * RootChild(j).visit
          /\ result = RootChild(j).move
    /\ \E m \in 1..Len(RootChildren) : RootChild(m).visit = 0

\* C7: with a budget of 0 and a root with children, the returned move is the
\* move of the first child of the children list.
C7_ZeroBudgetFirstChild ==
    (pc = "done" /\ sim_counts = 0 /\ RootChildren # << >>)
        => result = RootChild(1).move

C7_Witness ==
    /\ pc = "done"
    /\ sim_counts = 0
    /\ Len(RootChildren) >= 2
    /\ \A k \in 1..Len(RootChildren) : RootChild(k).visit = 0
    /\ result = RootChild(1).move

\* the nodes on the parent chain from n up to the root
RECURSIVE ParentChain(_, _)
ParentChain(heap, n) ==
    IF n = nullptr THEN {} ELSE {n} \cup ParentChain(heap, heap[n].parent)

\* C8: one backpropagation adds 1 to visit, and the outcome (1 for a win, 0
\* otherwise) to win, on every node of the parent chain from the selected
\* node up to and including the root, and changes nothing else in any node.
C8_BackPropagationFrame ==
    [][(pc = "backprop" /\ pc' = "loop")
          => /\ root \in ParentChain(nodes, current)
             /\ win \in {0, 1}
             /\ Len(nodes') = Len(nodes)
             /\ \A n \in 1..Len(nodes) :
                   IF n \in ParentChain(nodes, current)
                   THEN nodes'[n] = [nodes[n] EXCEPT !.visit = @ + 1, !.win = @ + win]
                   ELSE nodes'[n] = nodes[n]]_vars

C8_Witness ==
    /\ pc = "loop"
    /\ i < sim_counts
    /\ \E j, k \in 1..Len(RootChildren) :
          /\ RootChild(j).visit >= 1 /\ RootChild(j).win = 0
          /\ RootChild(k).visit >= 1 /\ RootChild(k).win >= 1
    /\ \E m \in 1..Len(RootChildren) : RootChild(m).visit = 0

\* the side to move has a legal move on board b
NonTerminal(b) == \E c \in Cells : PlaceLegal(b, c, b.who_take_turns)

\* C9 (as stated): every non-root node that has been selected and is not
\* terminal has been expanded.
C9_ExpandedWhenFirstSelected ==
    \A n \in 1..Len(nodes) :
        (nodes[n].parent # nullptr /\ nodes[n].visit >= 1 /\ NonTerminal(nodes[n].b))
            => nodes[n].child # << >>

\* C9 (amended): only the root is ever expanded; every other node keeps an
\* empty children list however often it is selected, and the node simulated
\* in an iteration is the root child that selection returned.
C9_OnlyRootExpanded ==
    /\ \A n \in 1..Len(nodes) : nodes[n].parent # nullptr => nodes[n].child = << >>
    /\ pc \in {"sim", "backprop"} => nodes[current].parent = root

C9_Witness ==
    /\ pc = "done"
    /\ sim_counts >= 2
    /\ \E n \in 1..Len(nodes) :
          /\ nodes[n].parent = root
          /\ nodes[n].visit >= 1
          /\ NonTerminal(nodes[n].b)
          /\ nodes[n].child = << >>

ExpandedInto(heap, r, b, moves) ==
    LET ch == heap[r].child
    IN  /\ heap[r].b = b
        /\ Len(ch) = Cardinality(moves)
        /\ {heap[ch[k]].move : k \in 1..Len(ch)} = moves
        /\ \A k \in 1..Len(ch) :
              heap[ch[k]] = [NewNode EXCEPT !.parent = r,
                                            !.move = heap[ch[k]].move,
                                            !.b = After(heap[ch[k]].move, b)]
        /\ \A k \in 1..Len(ch) : After(heap[ch[k]].move, b) # b

\* the moves that are legal on b for the side whose turn it is on b
MovesOfSideToMove(b) ==
    {place(c, b.who_take_turns) : c \in {d \in Cells : PlaceLegal(b, d, b.who_take_turns)}}

\* the moves of colour w that are legal on b
MovesOfColour(b, w) == {place(c, w) : c \in {d \in Cells : Legal(place(d, w), b)}}

RootScore(k) == UCTValue(RootChild(k), nodes[root])

\* C14: a selection at a root all of whose children are visited returns the
\* child with the greatest score win/visit + sqrt(2 ln(root.visit) / visit),
\* the earliest in the children list among equals; the node returned is
\* never null, never the root, and has an empty children list.
C14_ScoreDescent ==
    [][(pc = "loop" /\ pc' = "sim")
          => /\ current' # nullptr
             /\ current' # root
             /\ nodes[current'].child = << >>
             /\ (\A k \in 1..Len(RootChildren) : RootChild(k).visit > 0)
                   => \E k \in 1..Len(RootChildren) :
                         /\ current' = RootChildren[k]
                         /\ \A j \in 1..Len(RootChildren) :
                               /\ RootScore(j) <= RootScore(k)
                               /\ j < k => RootScore(j) < RootScore(k)]_vars

C14_Witness ==
    /\ pc = "sim"
    /\ Len(RootChildren) >= 3
    /\ nodes[current].visit >= 1
    /\ \E j, k \in 1..Len(RootChildren) :
          /\ j < k
          /\ RootChildren[j] = current
          /\ RootScore(j) = RootScore(k)
    /\ \E k \in 1..Len(RootChildren) : RootScore(k) < UCTValue(nodes[current], nodes[root])


\* the number of stones of colour w on board b
Stones(b, w) == Cardinality({c \in Cells : b.stone[c] = w})

\* C15: the rollout from the selected node applies its moves to a copy of
\* the node's state, the opponent first and then in strict alternation, and
\* ends at the first move that is not legal, when the side to move has no
\* legal move; the outcome is a win exactly when that side is the opponent,
\* that is when the number of moves applied is even.  No node changes.
C15_RolloutOutcome ==
    [][(pc = "sim" /\ pc' = "backprop")
          => LET ro == Rollout(nodes[current], who)
                 from == nodes[current].b
             IN  /\ win' \in {0, 1}
                 /\ win' = 1 <=> ro.moves % 2 = 0
                 /\ win' = 1 <=> ro.state.who_take_turns = 3 - who
                 /\ ~NonTerminal(ro.state)
                 /\ Stones(ro.state, 3 - who) = Stones(from, 3 - who) + (ro.moves + 1) \div 2
                 /\ Stones(ro.state, who) = Stones(from, who) + ro.moves \div 2
                 /\ \A c \in Cells : from.stone[c] # empty => ro.state.stone[c] = from.stone[c]
                 /\ nodes' = nodes]_vars

C15_Witness ==
    /\ pc = "backprop"
    /\ win = 1
    /\ Rollout(nodes[current], who).moves >= 2
    /\ \E n \in 1..Len(nodes) : nodes[n].visit >= 1 /\ nodes[n].win = 0


\* the number of steps a request is away from its return
StepsToReturn ==
    CASE pc = "start" -> 3 * sim_counts + 2
      [] pc = "loop" -> 3 * i + 1
      [] pc = "sim" -> 3 * i
      [] pc = "backprop" -> 3 * i - 1
      [] pc = "done" -> 0

\* C16: every request returns: short of its return it always has a next
\* step, and every step brings the return nearer.  On a root with children
\* the loop variable starts at the budget, every iteration takes exactly 1
\* from it and the scan of the children starts only at 0, so exactly
\* sim_counts iterations run; a rollout applies at most as many moves as its
\* start state has empty cells.
C16_Termination ==
    [][/\ StepsToReturn >= 0
       /\ pc # "done" => (StepsToReturn' >= 0 /\ StepsToReturn' < StepsToReturn)
       /\ pc' = "loop" => i' >= 0
       /\ (pc = "start" /\ pc' = "loop") => i' = sim_counts
       /\ (pc = "loop" /\ pc' = "sim") => (i >= 1 /\ i' = i)
       /\ (pc = "sim") => i' = i
       /\ (pc = "backprop") => i' = i - 1
       /\ (pc = "loop" /\ pc' = "done") => i = 0
       /\ (pc = "sim") => Rollout(nodes[current], who).moves
                             <= Stones(nodes[current].b, empty)]_vars

C16_Witness ==
    /\ pc = "done"
    /\ run = 2
    /\ sim_counts >= 3
    /\ i = 0
    /\ Len(RootChildren) >= 2
    /\ \E n \in 1..Len(nodes) :
          nodes[n].parent = root /\ Rollout(nodes[n], who).moves >= 3


\* C17: when a request returns, on the normal path and on the early return
\* alike, every node allocated while serving it has been released: no node
\* is left on the heap.
C17_NodesReleased == pc = "done" => nodes = << >>


\* the number of iterations completed so far in the loop of the request
Completed == sim_counts - i

\* C18: over a root with n children the first min(sim_counts, n) iterations
\* select the children in list order, each once; a child is selected by its
\* score only when every child and the root have visit >= 1; with a budget
\* of at least n every child has visit >= 1 when the move is decided.
C18_EveryChildSampledOnce ==
    (pc \in {"loop", "sim", "backprop", "done"} /\ RootChildren # << >>)
        => LET n == Len(RootChildren)
           IN  /\ Completed <= n
                     => \A k \in 1..n :
                           RootChild(k).visit = IF k <= Completed THEN 1 ELSE 0
               /\ Completed >= n => \A k \in 1..n : RootChild(k).visit >= 1
               /\ (pc \in {"sim", "backprop"} /\ Completed < n)
                     => current = RootChildren[Completed + 1]
               /\ (pc \in {"sim", "backprop"} /\ Completed >= n)
                     => /\ nodes[root].visit >= 1
                        /\ nodes[current].visit >= 1
               /\ (pc = "done" /\ sim_counts >= n)
                     => \A k \in 1..n : RootChild(k).visit >= 1

C18_Witness ==
    /\ pc = "sim"
    /\ Len(RootChildren) >= 3
    /\ Completed = Len(RootChildren)
    /\ \A k \in 1..Len(RootChildren) : RootChild(k).visit = 1
    /\ nodes[root].visit = Len(RootChildren)


\* the sums of visit and of win over the first k children of the root
RECURSIVE SumVisit(_)
SumVisit(k) == IF k = 0 THEN 0 ELSE RootChild(k).visit + SumVisit(k - 1)

RECURSIVE SumWin(_)
SumWin(k) == IF k = 0 THEN 0 ELSE RootChild(k).win + SumWin(k - 1)

\* C19: the tree has depth at most 1: only a node without parent has
\* children; every selected node is a child of the root; and the visits and
\* the wins of the root's children add up to those of the root.
C19_FlatTree ==
    /\ \A n \in 1..Len(nodes) :
          nodes[n].parent # nullptr
              => /\ nodes[n].child = << >>
                 /\ nodes[nodes[n].parent].parent = nullptr
    /\ pc \in {"sim", "backprop"}
          => \E k \in 1..Len(RootChildren) : current = RootChildren[k]
    /\ root # nullptr
          => /\ SumVisit(Len(RootChildren)) = nodes[root].visit
             /\ SumWin(Len(RootChildren)) = nodes[root].win

C19_Witness ==
    /\ pc = "done"
    /\ Len(RootChildren) >= 3
    /\ nodes[root].win >= 2
    /\ nodes[root].win < nodes[root].visit
    /\ \E j, k \in 1..Len(RootChildren) :
          j # k /\ RootChild(j).win >= 1 /\ RootChild(k).win >= 1
    /\ SumVisit(Len(RootChildren)) = nodes[root].visit


\* the configured name holds a forbidden character
NameForbidden == \E k \in 1..Len(Meta(args).name) : Meta(args).name[k] \in ForbiddenChars

\* the role is absent or is neither "black" nor "white"
RoleInvalid == args.role = << >> \/ args.role[1] \notin {"black", "white"}

\* the seed option is given and its text does not start with a number
SeedUnreadable ==
    /\ args.seed # << >>
    /\ \/ Len(args.seed[1]) = 0
       \/ args.seed[1][1] \notin {Digits[d] : d \in 1..10}

\* C11 (as stated): construction fails, and no agent is created, whenever the
\* name holds a forbidden character or the role is absent or not black or
\* white; it succeeds for every configuration with a valid name and role,
\* and the agent's colour is then the one the role names.
C11_FailsOnlyOnNameOrRole ==
    [][(ctor = "none" /\ ctor' # "none")
          => IF NameForbidden \/ RoleInvalid
             THEN ctor' # "ok" /\ who' = empty /\ myAgent' = "unset"
             ELSE /\ ctor' = "ok"
                  /\ args.role[1] = "black" => who' = black
                  /\ args.role[1] = "white" => who' = white]_vars

\* C11 (amended): construction fails, and no agent is created, whenever the
\* name holds a forbidden character, the role is absent or not black or
\* white, or a seed is given whose text does not start with a number; it
\* succeeds for every other configuration, and the agent's colour is then the
\* one the role names.
C11_ConstructionValidation ==
    [][(ctor = "none" /\ ctor' # "none")
          => IF NameForbidden \/ RoleInvalid \/ SeedUnreadable
             THEN ctor' # "ok" /\ who' = empty /\ myAgent' = "unset"
             ELSE /\ ctor' = "ok"
                  /\ args.role[1] = "black" => who' = black
                  /\ args.role[1] = "white" => who' = white]_vars

C11_Witness ==
    /\ ctor = "ok"
    /\ who = white
    /\ args.role = << "white" >>
    /\ args.name # << >>
    /\ Len(args.name[1]) = MaxNameLen
    /\ args.seed # << >>
    /\ seed > 2


C20_DelegateAlwaysSet ==
    /\ ctor = "ok" => myAgent # "unset"
    /\ handler # "undefined"

====
